---------------------------- MODULE Spec2Model ----------------------------
(***************************************************************************)
(* Model of nix-oci-hashes' reconciliation scripts:                        *)
(*   nix/scripts/manage-images.py          (generate-versions,             *)
(*                                          generate-pins, harvest-digests)*)
(*   nix/scripts/generate-version-dockerfiles.py   (legacy)                *)
(*   nix/scripts/harvest-tags.py                   (legacy)                *)
(*   nix/scripts/collect-digests.py                (legacy)                *)
(*                                                                         *)
(* Text is a sequence of tokens.  A token is one separator character       *)
(* ("/", ":", ".", "_", "@", " ") or a maximal run of other characters     *)
(* ("busybox", "linux", "FROM", "--platform=", "sha256").  The tokens of   *)
(* HexDigests each stand for one run of 64 characters of [a-f0-9].         *)
(***************************************************************************)
EXTENDS Naturals, Sequences, FiniteSets, TLC

\* Python's None: an absent group of the pattern (every group that is present is
\* non-empty), an absent digest, and a file in which no line matches.
NoText == <<>>

NoDigest == "none"

NoMatch == [matched |-> FALSE, platform |-> NoText, image |-> NoText,
            tag |-> NoText, digest |-> NoDigest]

HexDigests == {"d1", "d2"}

(***************************************************************************)
(* Sequence helpers.                                                       *)
(***************************************************************************)
Range(s) == {s[i] : i \in DOMAIN s}

\* Recursive operators bind each intermediate result to a bound variable
\* (CHOOSE r \in {F(v) : v \in {e}} : TRUE is F(e), with e evaluated once).
RECURSIVE FlattenFrom(_, _)
FlattenFrom(ss, i) == IF i > Len(ss) THEN <<>> ELSE ss[i] \o FlattenFrom(ss, i + 1)

Flatten(ss) == CHOOSE r \in {FlattenFrom(v, 1) : v \in {ss}} : TRUE

RECURSIVE SetToSeq(_)
SetToSeq(S) ==
    IF S = {} THEN <<>>
    ELSE CHOOSE r \in {<<x>> \o SetToSeq(rest) :
                          x \in {CHOOSE y \in S : TRUE}, rest \in {S \ {CHOOSE y \in S : TRUE}}} : TRUE

Prefixes(p) == {SubSeq(p, 1, k) : k \in 0..Len(p)}

Parent(p) == SubSeq(p, 1, Len(p) - 1)

(***************************************************************************)
(* str.replace(c, '_') for each c of a set of characters.                  *)
(***************************************************************************)
Replace(s, chars) == [i \in DOMAIN s |-> IF s[i] \in chars THEN "_" ELSE s[i]]

sanitize_image_name(image) == Replace(image, {"/", ":", "."})

sanitize_tag(tag) == Replace(tag, {".", "/"})

sanitize_platform(platform) == Replace(platform, {"/"})

sanitize_for_path(value) ==
    IF value = NoText THEN NoText ELSE Replace(value, {"/", ":", "."})

(***************************************************************************)
(* create_dockerfile_with_tag: the text of a one-line directive file, as   *)
(* the sequence of its lines.                                              *)
(***************************************************************************)
FromLine(platform, image, tag) ==
    <<"FROM", " ", "--platform=">> \o platform \o <<" ">> \o image \o <<":">> \o tag

\* a directive written with a digest after the tag
create_dockerfile_with_digest(image, platform, tag) ==
    <<FromLine(platform, image, tag) \o <<"@", "sha256", ":", "d1">> >>

create_dockerfile_with_tag(image, platform, tag) == <<FromLine(platform, image, tag)>>

(***************************************************************************)
(* parse_dockerfile.  The pattern, matched with re.IGNORECASE, is "FROM"   *)
(* and spaces at the start of the line, an optional "--platform=" group    *)
(* of non-space characters followed by spaces, a lazy image group of       *)
(* non-space characters, an optional ":" tag group of characters that are  *)
(* neither spaces nor "@", an optional "@sha256:" group of 64 characters   *)
(* of [a-f0-9], optional spaces, and an optional "AS <spaces> <anything>"  *)
(* up to the end of the line.                                              *)
(* A line is split at its spaces into words; the reference word is matched *)
(* as the regex engine matches it: the image group is lazy, so it is the   *)
(* shortest prefix after which the rest is an optional ":tag" followed by  *)
(* an optional "@sha256:<64 hex>".                                         *)
(***************************************************************************)
\* the words of line from position i on
RECURSIVE WordsFrom(_, _)
WordsFrom(line, i) ==
    IF i > Len(line) THEN <<>>
    ELSE IF line[i] = " " THEN WordsFrom(line, i + 1)
    ELSE CHOOSE r \in {<<SubSeq(line, i, n)>> \o WordsFrom(line, n + 1) :
                          n \in {CHOOSE k \in i..Len(line) :
                                    /\ \A j \in i..k : line[j] # " "
                                    /\ (k = Len(line) \/ line[k + 1] = " ")}} : TRUE

SplitWords(line) == WordsFrom(line, 1)

FromKeywords == {"FROM", "from"}

AsKeywords == {"AS", "as"}

Sha256Keywords == {"sha256", "SHA256"}

IsTagText(t) == t # <<>> /\ \A i \in DOMAIN t : t[i] \notin {"@", " "}

\* the optional tag group and the optional digest group against all of r
MatchTail(r) ==
    LET n == Len(r)
        hasDigest == /\ n >= 4
                     /\ r[n - 3] = "@"
                     /\ r[n - 2] \in Sha256Keywords
                     /\ r[n - 1] = ":"
                     /\ r[n] \in HexDigests
        body == IF hasDigest THEN SubSeq(r, 1, n - 4) ELSE r
        digest == IF hasDigest THEN r[n] ELSE NoDigest
    IN IF body = <<>> THEN [ok |-> TRUE, tag |-> NoText, digest |-> digest]
       ELSE IF Head(body) = ":" /\ IsTagText(Tail(body))
            THEN [ok |-> TRUE, tag |-> Tail(body), digest |-> digest]
       ELSE [ok |-> FALSE, tag |-> NoText, digest |-> NoDigest]

\* the lazy image group and the two optional groups against one word w (w # <<>>)
MatchRef(w) ==
    CHOOSE r \in {[image |-> SubSeq(w, 1, k), tag |-> t.tag, digest |-> t.digest] :
                    <<k, t>> \in {CHOOSE kt \in {<<i, MatchTail(SubSeq(w, i + 1, Len(w)))>> :
                                                   i \in 1..Len(w)} :
                                     /\ kt[2].ok
                                     /\ \A j \in 1..(kt[1] - 1) :
                                           ~MatchTail(SubSeq(w, j + 1, Len(w))).ok}} : TRUE

\* the optional AS clause against the words that follow the reference
TrailOK(tr) == tr = <<>> \/ (Len(tr) >= 2 /\ Len(tr[1]) = 1 /\ tr[1][1] \in AsKeywords)

WithRef(platform, w) ==
    CHOOSE r \in {[matched |-> TRUE, platform |-> platform, image |-> m.image,
                   tag |-> m.tag, digest |-> m.digest] : m \in {MatchRef(w)}} : TRUE

\* the words ws of a line that starts with FROM and a space
MatchWords(ws) ==
    IF /\ Len(ws) >= 3
       /\ Len(ws[2]) >= 2
       /\ ws[2][1] = "--platform="
       /\ TrailOK(SubSeq(ws, 4, Len(ws)))
    THEN WithRef(Tail(ws[2]), ws[3])
    ELSE IF Len(ws) >= 2 /\ TrailOK(SubSeq(ws, 3, Len(ws)))
    THEN WithRef(NoText, ws[2])
    ELSE NoMatch

MatchLine(line) ==
    IF Len(line) < 2 THEN NoMatch
    ELSE IF line[1] \notin FromKeywords \/ line[2] # " " THEN NoMatch
    ELSE CHOOSE r \in {MatchWords(ws) : ws \in {SplitWords(line)}} : TRUE

\* for line in content.splitlines(): the first line that matches
RECURSIVE FirstMatchFrom(_, _)
FirstMatchFrom(content, i) ==
    IF i > Len(content) THEN NoMatch
    ELSE CHOOSE r \in {IF m.matched THEN m ELSE FirstMatchFrom(content, i + 1) :
                         m \in {MatchLine(content[i])}} : TRUE

FirstMatch(content) == FirstMatchFrom(content, 1)

DefaultTag == <<"latest">>

DefaultPlatform == <<"linux", "/", "amd64">>

\* manage-images.py and collect-digests.py: absent tag and platform are defaulted
WithDefaults(m) ==
    IF ~m.matched THEN NoMatch
    ELSE [matched |-> TRUE,
          platform |-> IF m.platform = NoText THEN DefaultPlatform ELSE m.platform,
          image |-> m.image,
          tag |-> IF m.tag = NoText THEN DefaultTag ELSE m.tag,
          digest |-> m.digest]

parse_dockerfile(content) ==
    CHOOSE r \in {WithDefaults(m) : m \in {FirstMatch(content)}} : TRUE

\* harvest-tags.py: absent tag and platform stay absent, the digest is not captured
WithoutDigest(m) ==
    IF ~m.matched THEN NoMatch
    ELSE [matched |-> TRUE, platform |-> m.platform, image |-> m.image,
          tag |-> m.tag, digest |-> NoDigest]

parse_dockerfile_ht(content) ==
    CHOOSE r \in {WithoutDigest(m) : m \in {FirstMatch(content)}} : TRUE

(***************************************************************************)
(* The filesystem.  A tree (the versions tree, the pins tree) is the set   *)
(* of its directories, each a path relative to the tree's root (the root   *)
(* is <<>>, a path is a sequence of names, a name a sequence of tokens),   *)
(* and the content of the file named Dockerfile of each directory that     *)
(* holds one.  A tree whose root does not exist has no directories.        *)
(***************************************************************************)
NoTree == [dirs |-> {}, files |-> <<>>]

EmptyTree == [dirs |-> {<<>>}, files |-> <<>>]

Put(f, k, v) == [x \in (DOMAIN f) \cup {k} |-> IF x = k THEN v ELSE f[x]]

Drop(f, k) == [x \in (DOMAIN f) \ {k} |-> f[x]]

\* Path.exists() of the Dockerfile of directory d
FileExists(tree, d) == d \in DOMAIN tree.files

\* base_dir.rglob("Dockerfile"), as the directories that hold one
rglob(tree) == IF <<>> \in tree.dirs THEN DOMAIN tree.files ELSE {}

\* parent.mkdir(parents=True, exist_ok=True); path.write_text(content)
WriteFile(tree, d, content) ==
    [dirs |-> tree.dirs \cup Prefixes(d), files |-> Put(tree.files, d, content)]

\* path.unlink()
Unlink(tree, d) == [dirs |-> tree.dirs, files |-> Drop(tree.files, d)]

Children(tree, d) == {e \in tree.dirs : e # <<>> /\ Parent(e) = d}

IsEmptyDir(tree, d) == d \notin DOMAIN tree.files /\ Children(tree, d) = {}

\* the walk up without the test against base_dir: the root goes too when empty
RECURSIVE PruneUpThroughBase(_, _, _)
PruneUpThroughBase(tree, d, base) ==
    IF d \in tree.dirs /\ IsEmptyDir(tree, d)
    THEN IF d = <<>> THEN [dirs |-> tree.dirs \ {d}, files |-> tree.files]
         ELSE CHOOSE r \in {PruneUpThroughBase(t, Parent(d), base) :
                               t \in {[dirs |-> tree.dirs \ {d}, files |-> tree.files]}} : TRUE
    ELSE tree

\* while parent != base_dir and parent.exists(): rmdir, and stop at the first
\* directory that is not empty (rmdir raises OSError)
RECURSIVE PruneUp(_, _, _)
PruneUp(tree, d, base) ==
    IF d # base /\ d \in tree.dirs /\ IsEmptyDir(tree, d)
    THEN CHOOSE r \in {PruneUp(t, Parent(d), base) :
                          t \in {[dirs |-> tree.dirs \ {d}, files |-> tree.files]}} : TRUE
    ELSE tree

\* shutil.rmtree(d)
RmTree(tree, d) ==
    LET under(e) == Len(e) >= Len(d) /\ SubSeq(e, 1, Len(d)) = d
    IN [dirs |-> {e \in tree.dirs : ~under(e)},
        files |-> [e \in {x \in DOMAIN tree.files : ~under(x)} |-> tree.files[e]]]

(***************************************************************************)
(* The catalog (images.json): a sequence of items, each with image,        *)
(* platforms and the three lists of initial tags (item.get(key, []): an    *)
(* absent list is the empty one).                                          *)
(***************************************************************************)
strategies(item) ==
    << [name |-> <<"major">>, tags |-> item.initialMajor],
       [name |-> <<"major-minor">>, tags |-> item.initialMajorMinor],
       [name |-> <<"major-minor-patch">>, tags |-> item.initialMajorMinorPatch] >>

all_tags(item) ==
    item.initialMajor \o item.initialMajorMinor \o item.initialMajorMinorPatch

VersionPath(strategy, image, platform) ==
    <<strategy, sanitize_image_name(image), sanitize_platform(platform)>>

PinPath(image, platform, tag) ==
    <<sanitize_image_name(image), sanitize_platform(platform), sanitize_tag(tag)>>

\* version files that name the last tag of each list
ItemVersionJobsLastTag(item) ==
    LET st == strategies(item)
    IN Flatten([s \in 1..3 |->
         IF st[s].tags = <<>> THEN <<>>
         ELSE [p \in 1..Len(item.platforms) |->
                 [path |-> VersionPath(st[s].name, item.image, item.platforms[p]),
                  content |-> create_dockerfile_with_tag(
                                  item.image, item.platforms[p],
                                  st[s].tags[Len(st[s].tags)])]]])

\* the version files one item asks for, in the order of the loops: each a
\* directory and the content written there if no file exists
ItemVersionJobs(item) ==
    LET st == strategies(item)
    IN Flatten([s \in 1..3 |->
         IF st[s].tags = <<>> THEN <<>>
         ELSE [p \in 1..Len(item.platforms) |->
                 [path |-> VersionPath(st[s].name, item.image, item.platforms[p]),
                  content |-> create_dockerfile_with_tag(
                                  item.image, item.platforms[p], st[s].tags[1])]]])

\* the pin files one item asks for: every tag of every strategy, every platform
ItemPinJobs(item) ==
    LET tags == all_tags(item)
    IN Flatten([t \in 1..Len(tags) |->
         [p \in 1..Len(item.platforms) |->
            [path |-> PinPath(item.image, item.platforms[p], tags[t]),
             content |-> create_dockerfile_with_tag(
                             item.image, item.platforms[p], tags[t])]]])

VersionJobs(images) == Flatten([i \in 1..Len(images) |-> ItemVersionJobs(images[i])])

PinJobs(images) == Flatten([i \in 1..Len(images) |-> ItemPinJobs(images[i])])

\* a creation that writes whether or not the path exists
CreateAlways(acc, job) ==
    [tree |-> WriteFile(acc.tree, job.path, job.content),
     created |-> acc.created \cup {job.path}]

\* if not path.exists(): mkdir, write_text, created_files.append
CreateIfMissing(acc, job) ==
    IF FileExists(acc.tree, job.path) THEN acc
    ELSE [tree |-> WriteFile(acc.tree, job.path, job.content),
          created |-> acc.created \cup {job.path}]

RECURSIVE CreateFrom(_, _, _)
CreateFrom(acc, jobs, i) ==
    IF i > Len(jobs) THEN acc
    ELSE CHOOSE r \in {CreateFrom(a, jobs, i + 1) : a \in {CreateIfMissing(acc, jobs[i])}} : TRUE

CreateAll(acc, jobs) ==
    CHOOSE r \in {CreateFrom(a, js, 1) : a \in {acc}, js \in {jobs}} : TRUE

(***************************************************************************)
(* The order of a directory walk (rglob, iteration over a set of paths) is *)
(* the filesystem's: one fixed order of all paths that the scripts cannot  *)
(* know.  The model runs under an order and under its reverse, so whenever *)
(* two files compete (two version files that ask for the same pin path,    *)
(* two pin files that fill the same slot of the index), each of them is    *)
(* visited first in one of the two.                                        *)
(***************************************************************************)
Reverse(s) == [i \in 1..Len(s) |-> s[Len(s) + 1 - i]]

WalkOrders == {"forward", "backward"}

Walk(order, paths) == IF order = "forward" THEN SetToSeq(paths) ELSE Reverse(SetToSeq(paths))

(***************************************************************************)
(* manage-images.py generate-versions                                      *)
(***************************************************************************)
\* a synchronizer that writes the version file of every job anew
generate_versions_rewriting(cat, vtree) ==
    IF ~cat.exists
    THEN [exit |-> 1, tree |-> vtree, created |-> {}]
    ELSE CHOOSE x \in {[exit |-> 0, tree |-> r.tree, created |-> r.created \ rglob(vtree)] :
                          r \in {CreateAll([tree |-> Unlinked, created |-> {}],
                                           VersionJobs(cat.images)) :
                                    Unlinked \in {[dirs |-> vtree.dirs, files |-> <<>>]}}} : TRUE

generate_versions(cat, vtree) ==
    IF ~cat.exists
    THEN [exit |-> 1, tree |-> vtree, created |-> {}]
    ELSE CHOOSE x \in {[exit |-> 0, tree |-> r.tree, created |-> r.created] :
                          r \in {CreateAll([tree |-> vtree, created |-> {}],
                                           VersionJobs(cat.images))}} : TRUE

(***************************************************************************)
(* manage-images.py generate-pins                                          *)
(***************************************************************************)
\* what one version file asks for: parse_dockerfile defaults the tag, so
\* "not parsed['tag']" never holds of a file that matched
PinJobOf(parsed) ==
    [wanted |-> parsed.matched /\ parsed.tag # NoText,
     path |-> PinPath(parsed.image, parsed.platform, parsed.tag),
     content |-> create_dockerfile_with_tag(parsed.image, parsed.platform, parsed.tag)]

VersionPinJob(content) ==
    CHOOSE r \in {PinJobOf(parsed) : parsed \in {parse_dockerfile(content)}} : TRUE

\* a pin written for every version file, whether or not the pin exists
PinFromVersionRewriting(acc, content) ==
    CHOOSE r \in {IF job.wanted THEN CreateAlways(acc, job) ELSE acc :
                     job \in {VersionPinJob(content)}} : TRUE

PinFromVersion(acc, content) ==
    CHOOSE r \in {IF job.wanted THEN CreateIfMissing(acc, job) ELSE acc :
                     job \in {VersionPinJob(content)}} : TRUE

RECURSIVE PinsFromVersions(_, _, _, _)
PinsFromVersions(acc, vtree, order, i) ==
    IF i > Len(order) THEN acc
    ELSE CHOOSE r \in {PinsFromVersions(a, vtree, order, i + 1) :
                          a \in {PinFromVersion(acc, vtree.files[order[i]])}} : TRUE

generate_pins(walk, cat, vtree, ptree) ==
    CHOOSE x \in {[exit |-> 0, tree |-> second.tree, created |-> second.created] :
                     second \in {IF cat.exists THEN CreateAll(first, PinJobs(cat.images))
                                 ELSE first :
                                 first \in {PinsFromVersions([tree |-> ptree, created |-> {}],
                                                             vtree, Walk(walk, rglob(vtree)), 1)}}} : TRUE

(***************************************************************************)
(* manage-images.py harvest-digests                                        *)
(***************************************************************************)
Get(f, k) == IF k \in DOMAIN f THEN f[k] ELSE <<>>

\* digests[image][tag][platform] = reference, creating the inner dicts
Insert(digests, image, tag, platform, reference) ==
    Put(digests, image,
        Put(Get(digests, image), tag,
            Put(Get(Get(digests, image), tag), platform, reference)))

Reference(image, tag, digest) ==
    image \o <<":">> \o tag \o <<"@", "sha256", ":", digest>>

Slot(parsed) == <<parsed.image, parsed.tag, parsed.platform>>

Slots(digests) ==
    UNION {UNION {{<<i, t, p>> : p \in DOMAIN digests[i][t]} : t \in DOMAIN digests[i]}
           : i \in DOMAIN digests}

\* sum(len(platforms) for image_tags in digests.values() for platforms in ...)
total_entries(digests) == Cardinality(Slots(digests))

HarvestParsed(acc, parsed) ==
    IF ~parsed.matched THEN acc
    ELSE IF parsed.digest # NoDigest
         THEN [digests |-> Insert(acc.digests, parsed.image, parsed.tag, parsed.platform,
                                  Reference(parsed.image, parsed.tag, parsed.digest)),
               skipped |-> acc.skipped]
    ELSE [digests |-> acc.digests, skipped |-> acc.skipped + 1]

HarvestOne(acc, content) ==
    CHOOSE r \in {HarvestParsed(acc, parsed) : parsed \in {parse_dockerfile(content)}} : TRUE

RECURSIVE HarvestAll(_, _, _, _)
HarvestAll(acc, ptree, order, i) ==
    IF i > Len(order) THEN acc
    ELSE CHOOSE r \in {HarvestAll(a, ptree, order, i + 1) :
                          a \in {HarvestOne(acc, ptree.files[order[i]])}} : TRUE

NoFile == [exists |-> FALSE, digests |-> <<>>]

harvest_digests(walk, ptree, old) ==
    IF <<>> \notin ptree.dirs
    THEN [exit |-> 1, file |-> old, included |-> 0, skipped |-> 0]
    ELSE CHOOSE x \in {[exit |-> 0, file |-> [exists |-> TRUE, digests |-> r.digests],
                          included |-> total_entries(r.digests), skipped |-> r.skipped] :
                          r \in {HarvestAll([digests |-> <<>>, skipped |-> 0],
                                            ptree, Walk(walk, rglob(ptree)), 1)}} : TRUE

(***************************************************************************)
(* generate-version-dockerfiles.py (legacy): both trees from the catalog,  *)
(* orphans removed first.                                                  *)
(***************************************************************************)
get_expected_version_paths(images) == {j.path : j \in Range(VersionJobs(images))}

get_expected_pin_paths(images) == {j.path : j \in Range(PinJobs(images))}

RemoveOrphan(acc, d, base) ==
    [tree |-> PruneUp(Unlink(acc.tree, d), d, base), removed |-> acc.removed \cup {d}]

RECURSIVE RemoveOrphans(_, _, _, _)
RemoveOrphans(acc, orphaned, base, i) ==
    IF i > Len(orphaned) THEN acc
    ELSE CHOOSE r \in {RemoveOrphans(a, orphaned, base, i + 1) :
                          a \in {RemoveOrphan(acc, orphaned[i], base)}} : TRUE

remove_orphaned_dockerfiles(walk, expected_paths, existing_paths, tree) ==
    CHOOSE r \in {RemoveOrphans([tree |-> tree, removed |-> {}], orphaned, <<>>, 1) :
                     orphaned \in {Walk(walk, existing_paths \ expected_paths)}} : TRUE

generate_version_dockerfiles(walk, cat, vtree, ptree) ==
    IF ~cat.exists
    THEN [exit |-> 1, versions |-> vtree, pins |-> ptree,
          created_version_files |-> {}, created_pin_files |-> {},
          removed_version_files |-> {}, removed_pin_files |-> {}]
    ELSE CHOOSE x \in
           {CHOOSE y \in
              {[exit |-> 0, versions |-> cv.tree, pins |-> cp.tree,
                created_version_files |-> cv.created, created_pin_files |-> cp.created,
                removed_version_files |-> rv.removed, removed_pin_files |-> rp.removed] :
                 cv \in {CreateAll([tree |-> rv.tree, created |-> {}],
                                   VersionJobs(cat.images))},
                 cp \in {CreateAll([tree |-> rp.tree, created |-> {}],
                                   PinJobs(cat.images))}} : TRUE :
              rv \in {remove_orphaned_dockerfiles(
                          walk, get_expected_version_paths(cat.images), rglob(vtree), vtree)},
              rp \in {remove_orphaned_dockerfiles(
                          walk, get_expected_pin_paths(cat.images), rglob(ptree), ptree)}} : TRUE

(***************************************************************************)
(* harvest-tags.py (legacy): the pins tree from the version files alone.   *)
(***************************************************************************)
DefaultDir == <<"default">>

HtPinJobOf(parsed) ==
    [wanted |-> parsed.matched /\ parsed.tag # NoText,
     path |-> << sanitize_for_path(parsed.image),
                 IF parsed.platform # NoText THEN sanitize_for_path(parsed.platform)
                 ELSE DefaultDir,
                 sanitize_for_path(parsed.tag) >>,
     content |-> IF parsed.platform # NoText
                 THEN <<FromLine(parsed.platform, parsed.image, parsed.tag)>>
                 ELSE << <<"FROM", " ">> \o parsed.image \o <<":">> \o parsed.tag >>]

HtPinJob(content) ==
    CHOOSE r \in {HtPinJobOf(parsed) : parsed \in {parse_dockerfile_ht(content)}} : TRUE

get_valid_pins_from_versions(vtree) ==
    {job.path : job \in {j \in {HtPinJob(vtree.files[d]) : d \in rglob(vtree)} : j.wanted}}

\* the three nested iterdir loops: every directory of depth 3 that is not
\* valid is removed with all it holds, then every directory of depth 2 left
\* empty, then every directory of depth 1 left empty
remove_orphaned_pins(valid_pins, ptree) ==
    IF <<>> \notin ptree.dirs THEN [tree |-> ptree, removed |-> {}]
    ELSE LET stale == {d \in ptree.dirs : Len(d) = 3 /\ d \notin valid_pins}
             under(e) == \E d \in stale : Len(e) >= 3 /\ SubSeq(e, 1, 3) = d
             t1 == [dirs |-> {e \in ptree.dirs : ~under(e)},
                    files |-> [e \in {x \in DOMAIN ptree.files : ~under(x)} |->
                                  ptree.files[e]]]
             t2 == [dirs |-> {e \in t1.dirs : ~(Len(e) = 2 /\ IsEmptyDir(t1, e))},
                    files |-> t1.files]
             t3 == [dirs |-> {e \in t2.dirs : ~(Len(e) = 1 /\ IsEmptyDir(t2, e))},
                    files |-> t2.files]
         IN [tree |-> t3, removed |-> stale]

HtCreateOne(acc, content) ==
    CHOOSE r \in {IF job.wanted THEN CreateIfMissing(acc, job) ELSE acc :
                     job \in {HtPinJob(content)}} : TRUE

RECURSIVE HtCreateAll(_, _, _, _)
HtCreateAll(acc, vtree, order, i) ==
    IF i > Len(order) THEN acc
    ELSE CHOOSE r \in {HtCreateAll(a, vtree, order, i + 1) :
                          a \in {HtCreateOne(acc, vtree.files[order[i]])}} : TRUE

harvest_tags(walk, vtree, ptree) ==
    IF <<>> \notin vtree.dirs
    THEN [exit |-> 1, tree |-> ptree, created |-> {}, removed |-> {}]
    ELSE CHOOSE x \in
           {CHOOSE y \in
              {[exit |-> 0, tree |-> cr.tree, created |-> cr.created,
                removed |-> rm.removed] :
                 cr \in {HtCreateAll([tree |-> rm.tree, created |-> {}],
                                     vtree, Walk(walk, rglob(vtree)), 1)}} : TRUE :
              rm \in {remove_orphaned_pins(get_valid_pins_from_versions(vtree), ptree)}} : TRUE

(***************************************************************************)
(* collect-digests.py (legacy): every pin file that matches is stored,     *)
(* with or without a digest; a missing pins directory gives an empty index.*)
(***************************************************************************)
CollectParsed(digests, parsed) ==
    IF ~parsed.matched THEN digests
    ELSE Insert(digests, parsed.image, parsed.tag, parsed.platform,
                IF parsed.digest # NoDigest
                THEN Reference(parsed.image, parsed.tag, parsed.digest)
                ELSE parsed.image \o <<":">> \o parsed.tag)

CollectOne(digests, content) ==
    CHOOSE r \in {CollectParsed(digests, parsed) : parsed \in {parse_dockerfile(content)}} : TRUE

RECURSIVE CollectAll(_, _, _, _)
CollectAll(digests, ptree, order, i) ==
    IF i > Len(order) THEN digests
    ELSE CHOOSE r \in {CollectAll(a, ptree, order, i + 1) :
                          a \in {CollectOne(digests, ptree.files[order[i]])}} : TRUE

collect_digests(walk, ptree) ==
    IF <<>> \notin ptree.dirs THEN <<>>
    ELSE CollectAll(<<>>, ptree, Walk(walk, rglob(ptree)), 1)

(***************************************************************************)
(* The names the model runs on.                                            *)
(***************************************************************************)
busybox == <<"busybox">>

lib_slash_app == <<"lib", "/", "app">>

lib_under_app == <<"lib", "_", "app">>

amd64 == <<"linux", "/", "amd64">>

arm64 == <<"linux", "/", "arm64">>

old == <<"old">>

ImageSpecs ==
    { [image |-> busybox, platforms |-> <<amd64>>,
       initialMajor |-> << <<"1">> >>, initialMajorMinor |-> <<>>,
       initialMajorMinorPatch |-> <<>>],
      [image |-> lib_slash_app, platforms |-> <<amd64, arm64>>,
       initialMajor |-> << <<"1", ".", "0">> >>, initialMajorMinor |-> <<>>,
       initialMajorMinorPatch |-> <<>>],
      [image |-> lib_under_app, platforms |-> <<amd64>>,
       initialMajor |-> << <<"1", "_", "0">>, <<"2">> >>,
       initialMajorMinor |-> << <<"3">> >>,
       initialMajorMinorPatch |-> <<>>],
      [image |-> old, platforms |-> <<amd64>>,
       initialMajor |-> <<>>, initialMajorMinor |-> <<>>,
       initialMajorMinorPatch |-> << <<"1">> >>] }

\* the digest the update bot finds in the registry
BotDigests == {"d2"}

\* the tags the update bot moves a version file to
BotTags == { <<"3">> }

\* the most items the catalog holds
MaxSpecs == 2

\* the most edits the maintainer and the update bot make between them
MaxEdits == 2

\* the items of a catalog of a stepwise run, and the crashes of a behaviour
MaxStepSpecs == 1

MaxCrashes == 1

(***************************************************************************)
(* Trees left by earlier runs, which the scripts may find when they start: *)
(* files of an image that the catalog may no longer name.                  *)
(***************************************************************************)
\* a version file with platform and tag, and one whose directive, below a
\* comment line, has neither
SeedVersions ==
    WriteFile(
        WriteFile(EmptyTree, << <<"major">>, old, sanitize_platform(amd64) >>,
                  << FromLine(amd64, old, <<"1">>) >>),
        << <<"major-minor">>, old, sanitize_platform(amd64) >>,
        << <<"#", " ", "managed">>, <<"FROM", " ">> \o old >>)

\* a pin that carries a digest, a pin that harvest-tags.py wrote for a
\* directive without platform, and a file with no directive
SeedPins ==
    WriteFile(
        WriteFile(
            WriteFile(EmptyTree, << old, sanitize_platform(amd64), <<"1">> >>,
                      << FromLine(amd64, old, <<"1">>) \o <<"@", "sha256", ":", "d1">> >>),
            << old, <<"default">>, <<"1">> >>,
            << <<"FROM", " ">> \o old \o <<":", "1">> >>),
        << old, sanitize_platform(arm64), <<"1">> >>,
        << <<"#", " ", "todo">> >>)

(***************************************************************************)
(* State.                                                                  *)
(***************************************************************************)
VARIABLES
    scripts,      \* the scripts the workflow runs: manage-images.py, or the three
                  \* legacy scripts
    walk,         \* the order in which the filesystem lists its files
    catalog,      \* images.json: whether it exists, and its items
    versions,     \* the tree under nix/_dockerfiles/versions
    pins,         \* the tree under nix/_dockerfiles/pins
    digestsFile,  \* digests.json: whether it exists, and the index it holds
    report,       \* the last run, if nothing was edited since: its command, whether
                  \* the run before it was of the same command, its exit code and
                  \* what it counted
    edits,        \* the edits made so far by the maintainer and the update bot
    probe,        \* two names given to the path codec
    encoded,      \* the paths the codec made of them
    run           \* a run that is under way, one filesystem operation at a time

vars ==
    <<scripts, walk, catalog, versions, pins, digestsFile, report, edits, probe, encoded, run>>

NoProbe == [a |-> <<>>, b |-> <<>>]

NoEncoding == [op |-> "none", a |-> <<>>, b |-> <<>>]

\* no run under way: no operations to do, nothing created, no goal
NoRun ==
    [stage |-> "none", items |-> <<>>, i |-> 1, phase |-> "begin", at |-> <<>>,
     created |-> {}, crashed |-> FALSE, recovering |-> FALSE, crashes |-> 0,
     goal |-> [versions |-> NoTree, pins |-> NoTree]]

NoReport ==
    [op |-> "none", repeat |-> FALSE, exit |-> 0, createdVersions |-> {}, createdPins |-> {},
     removedVersions |-> {}, removedPins |-> {}, included |-> 0, skipped |-> 0]

Init ==
    /\ scripts \in {"manage-images", "legacy"}
    /\ walk \in WalkOrders
    /\ catalog = [exists |-> TRUE, images |-> <<>>]
    /\ \E start \in {<<NoTree, NoTree>>, <<SeedVersions, SeedPins>>} :
           versions = start[1] /\ pins = start[2]
    /\ digestsFile = NoFile
    /\ report = NoReport
    /\ edits = 0
    /\ probe = NoProbe
    /\ encoded = NoEncoding
    /\ run = NoRun

(***************************************************************************)
(* The commands.                                                           *)
(***************************************************************************)
\* a generate-versions that goes on to write the pins of the catalog
GenerateVersionsAndPins ==
    /\ scripts = "manage-images"
    /\ \E r \in {generate_versions(catalog, versions)},
          p \in {generate_pins(walk, catalog, versions, pins)} :
          /\ versions' = r.tree
          /\ pins' = p.tree
          /\ report' = [NoReport EXCEPT !.op = "generate-versions",
                                        !.repeat = (report.op = "generate-versions"),
                                        !.exit = r.exit, !.createdVersions = r.created]
    /\ UNCHANGED <<run, probe, encoded, scripts, walk, catalog, digestsFile, edits>>

GenerateVersions ==
    /\ scripts = "manage-images"
    /\ \E r \in {generate_versions(catalog, versions)} :
          /\ versions' = r.tree
          /\ report' = [NoReport EXCEPT !.op = "generate-versions",
                                        !.repeat = (report.op = "generate-versions"),
                                        !.exit = r.exit,
                                        !.createdVersions = r.created]
    /\ UNCHANGED <<run, probe, encoded, scripts, walk, catalog, pins, digestsFile, edits>>

GeneratePins ==
    /\ scripts = "manage-images"
    /\ \E r \in {generate_pins(walk, catalog, versions, pins)} :
          /\ pins' = r.tree
          /\ report' = [NoReport EXCEPT !.op = "generate-pins",
                                        !.repeat = (report.op = "generate-pins"),
                                        !.exit = r.exit,
                                        !.createdPins = r.created]
    /\ UNCHANGED <<run, probe, encoded, scripts, walk, catalog, versions, digestsFile, edits>>

HarvestDigests ==
    /\ scripts = "manage-images"
    /\ \E r \in {harvest_digests(walk, pins, digestsFile)} :
          /\ digestsFile' = r.file
          /\ report' = [NoReport EXCEPT !.op = "harvest-digests",
                                        !.repeat = (report.op = "harvest-digests"),
                                        !.exit = r.exit,
                                        !.included = r.included, !.skipped = r.skipped]
    /\ UNCHANGED <<run, probe, encoded, scripts, walk, catalog, versions, pins, edits>>

GenerateVersionDockerfiles ==
    /\ scripts = "legacy"
    /\ \E r \in {generate_version_dockerfiles(walk, catalog, versions, pins)} :
          /\ versions' = r.versions
          /\ pins' = r.pins
          /\ report' = [NoReport EXCEPT !.op = "generate-version-dockerfiles",
                                        !.repeat = (report.op = "generate-version-dockerfiles"),
                                        !.exit = r.exit,
                                        !.createdVersions = r.created_version_files,
                                        !.createdPins = r.created_pin_files,
                                        !.removedVersions = r.removed_version_files,
                                        !.removedPins = r.removed_pin_files]
    /\ UNCHANGED <<run, probe, encoded, scripts, walk, catalog, digestsFile, edits>>

HarvestTags ==
    /\ scripts = "legacy"
    /\ \E r \in {harvest_tags(walk, versions, pins)} :
          /\ pins' = r.tree
          /\ report' = [NoReport EXCEPT !.op = "harvest-tags",
                                        !.repeat = (report.op = "harvest-tags"),
                                        !.exit = r.exit,
                                        !.createdPins = r.created,
                                        !.removedPins = r.removed]
    /\ UNCHANGED <<run, probe, encoded, scripts, walk, catalog, versions, digestsFile, edits>>

CollectDigests ==
    /\ scripts = "legacy"
    /\ \E d \in {collect_digests(walk, pins)} :
          /\ digestsFile' = [exists |-> TRUE, digests |-> d]
          /\ report' = [NoReport EXCEPT !.op = "collect-digests",
                                        !.repeat = (report.op = "collect-digests"),
                                        !.included = total_entries(d)]
    /\ UNCHANGED <<run, probe, encoded, scripts, walk, catalog, versions, pins, edits>>

(***************************************************************************)
(* The maintainer edits the catalog.                                       *)
(***************************************************************************)
CatalogAdd ==
    \E item \in ImageSpecs :
        /\ edits < MaxEdits
        /\ Len(catalog.images) < MaxSpecs
        /\ \A i \in DOMAIN catalog.images : catalog.images[i].image # item.image
        /\ catalog' = [exists |-> TRUE, images |-> Append(catalog.images, item)]
        /\ report' = NoReport
        /\ edits' = edits + 1
        /\ UNCHANGED <<run, probe, encoded, scripts, walk, versions, pins, digestsFile>>

CatalogRemove ==
    \E i \in DOMAIN catalog.images :
        /\ edits < MaxEdits
        /\ catalog' = [catalog EXCEPT !.images =
                          SubSeq(@, 1, i - 1) \o SubSeq(@, i + 1, Len(@))]
        /\ report' = NoReport
        /\ edits' = edits + 1
        /\ UNCHANGED <<run, probe, encoded, scripts, walk, versions, pins, digestsFile>>

CatalogDelete ==
    /\ edits < MaxEdits
    /\ catalog.exists
    /\ catalog' = [exists |-> FALSE, images |-> <<>>]
    /\ report' = NoReport
    /\ edits' = edits + 1
    /\ UNCHANGED <<run, probe, encoded, scripts, walk, versions, pins, digestsFile>>

(***************************************************************************)
(* The update bot: it gives the directive of an existing version file a    *)
(* new tag, and appends a digest to the directive of an existing pin file  *)
(* that has none.                                                          *)
(***************************************************************************)
WithTag(content, tag) ==
    LET m == FirstMatch(content)
    IN IF m.platform # NoText THEN <<FromLine(m.platform, m.image, tag)>>
       ELSE << <<"FROM", " ">> \o m.image \o <<":">> \o tag >>

WithDigest(content, digest) ==
    [i \in DOMAIN content |->
        IF i = 1 THEN content[i] \o <<"@", "sha256", ":", digest>> ELSE content[i]]

BotBumpTag ==
    \E d \in rglob(versions), tag \in BotTags :
        /\ edits < MaxEdits
        /\ FirstMatch(versions.files[d]).matched
        /\ FirstMatch(versions.files[d]).tag # tag
        /\ versions' = WriteFile(versions, d, WithTag(versions.files[d], tag))
        /\ report' = NoReport
        /\ edits' = edits + 1
        /\ UNCHANGED <<run, probe, encoded, scripts, walk, catalog, pins, digestsFile>>

BotAddDigest ==
    \E d \in rglob(pins), digest \in BotDigests :
        /\ edits < MaxEdits
        /\ Len(pins.files[d]) = 1
        /\ MatchLine(pins.files[d][1]).matched
        /\ "@" \notin Range(pins.files[d][1])
        /\ pins' = WriteFile(pins, d, WithDigest(pins.files[d], digest))
        /\ report' = NoReport
        /\ edits' = edits + 1
        /\ UNCHANGED <<run, probe, encoded, scripts, walk, catalog, versions, digestsFile>>

Next ==
    \/ GenerateVersions
    \/ GeneratePins
    \/ HarvestDigests
    \/ GenerateVersionDockerfiles
    \/ HarvestTags
    \/ CollectDigests
    \/ CatalogAdd
    \/ CatalogRemove
    \/ CatalogDelete
    \/ BotBumpTag
    \/ BotAddDigest

Spec == Init /\ [][Next]_vars

(***************************************************************************)
(* The path codec on its own: two names, each a strategy, an image, a      *)
(* platform and a tag, and the paths that the scripts make of them.        *)
(***************************************************************************)
CodecStrategies == { <<"major">>, <<"major-minor">> }

CodecImages == { busybox, lib_slash_app, lib_under_app, <<"lib", ".", "app">> }

CodecPlatforms == { amd64, arm64 }

CodecTags == { <<"1">>, <<"1", ".", "0">>, <<"1", "_", "0">> }

CodecNames ==
    [strategy : CodecStrategies, image : CodecImages,
     platform : CodecPlatforms, tag : CodecTags]

CodecInit ==
    /\ probe \in [a : CodecNames, b : CodecNames]
    /\ encoded = NoEncoding
    /\ run = NoRun
    /\ scripts = "manage-images"
    /\ walk = "forward"
    /\ catalog = [exists |-> TRUE, images |-> <<>>]
    /\ versions = NoTree
    /\ pins = NoTree
    /\ digestsFile = NoFile
    /\ report = NoReport
    /\ edits = 0

\* pins_dir / sanitize_image_name(image) / platform.replace('/', '_') /
\* sanitize_tag(tag)
EncodePins ==
    /\ encoded' = [op |-> "pins",
                   a |-> PinPath(probe.a.image, probe.a.platform, probe.a.tag),
                   b |-> PinPath(probe.b.image, probe.b.platform, probe.b.tag)]
    /\ UNCHANGED <<run, probe, scripts, walk, catalog, versions, pins, digestsFile, report, edits>>

\* versions_dir / strategy / sanitize_image_name(image) / platform.replace('/', '_')
EncodeVersions ==
    /\ encoded' = [op |-> "versions",
                   a |-> VersionPath(probe.a.strategy, probe.a.image, probe.a.platform),
                   b |-> VersionPath(probe.b.strategy, probe.b.image, probe.b.platform)]
    /\ UNCHANGED <<run, probe, scripts, walk, catalog, versions, pins, digestsFile, report, edits>>

CodecNext == EncodePins \/ EncodeVersions

SpecCodec == CodecInit /\ [][CodecNext]_vars

(***************************************************************************)
(* The pipeline of manage-images.py from empty trees: a catalog, no        *)
(* versions tree and no pins tree; the three commands run, and the update  *)
(* bot appends digests to pin files.  The catalog may name an image of a   *)
(* registry with a port.                                                   *)
(***************************************************************************)
reg_port_app == <<"reg", ":", "5000", "/", "app">>

PipelineSpecs ==
    ImageSpecs \cup
    { [image |-> reg_port_app, platforms |-> <<amd64>>,
       initialMajor |-> << <<"1">> >>, initialMajorMinor |-> <<>>,
       initialMajorMinorPatch |-> <<>>] }

PipelineCatalogs ==
    {c \in UNION {[1..n -> PipelineSpecs] : n \in 1..MaxSpecs} :
        \A i, j \in DOMAIN c : c[i].image = c[j].image => i = j}

PipelineInit ==
    /\ scripts = "manage-images"
    /\ walk \in WalkOrders
    /\ \E c \in PipelineCatalogs : catalog = [exists |-> TRUE, images |-> c]
    /\ versions = NoTree
    /\ pins = NoTree
    /\ digestsFile = NoFile
    /\ report = NoReport
    /\ edits = 0
    /\ probe = NoProbe
    /\ encoded = NoEncoding
    /\ run = NoRun

PipelineNext ==
    \/ GenerateVersions
    \/ GeneratePins
    \/ BotAddDigest
    \/ HarvestDigests

SpecPipeline == PipelineInit /\ [][PipelineNext]_vars

(***************************************************************************)
(* A run one filesystem operation at a time.  A run of a stage is the list *)
(* of things its loops will do (an orphan to unlink and prune, a pin       *)
(* directory to remove, a directory to remove if empty, a file to create   *)
(* if missing), worked through in order; each step makes at most one       *)
(* change to a tree (unlink, rmdir, rmtree, mkdir, write_text).  The       *)
(* process can die between any two steps, and the stage is then run again  *)
(* from its start on the trees as they were left.                          *)
(***************************************************************************)
Item(kind, tree, path, content) ==
    [kind |-> kind, tree |-> tree, path |-> path, content |-> content]

\* for dockerfile_path in orphaned
UnlinkItems(tree, order) ==
    [k \in 1..Len(order) |-> Item("unlink", tree, order[k], <<>>)]

\* a creation loop: one guarded creation for each expected file
CreateItems(tree, jobs) ==
    [k \in 1..Len(jobs) |-> Item("create", tree, jobs[k].path, jobs[k].content)]

\* a main that runs the creation loop first and removes the orphans last
gvd_items_create_first(fsorder, cat, vtree, ptree) ==
    Flatten([k \in 1..Len(cat.images) |->
               CreateItems("versions", ItemVersionJobs(cat.images[k]))
               \o CreateItems("pins", ItemPinJobs(cat.images[k]))])
    \o UnlinkItems("versions",
                   Walk(fsorder, rglob(vtree) \ get_expected_version_paths(cat.images)))
    \o UnlinkItems("pins", Walk(fsorder, rglob(ptree) \ get_expected_pin_paths(cat.images)))

\* generate-version-dockerfiles.py main: the orphans of the versions tree,
\* the orphans of the pins tree, then for each item of the catalog its
\* versions and its pins to create
gvd_items(fsorder, cat, vtree, ptree) ==
    UnlinkItems("versions",
                Walk(fsorder, rglob(vtree) \ get_expected_version_paths(cat.images)))
    \o UnlinkItems("pins", Walk(fsorder, rglob(ptree) \ get_expected_pin_paths(cat.images)))
    \o Flatten([k \in 1..Len(cat.images) |->
                  CreateItems("versions", ItemVersionJobs(cat.images[k]))
                  \o CreateItems("pins", ItemPinJobs(cat.images[k]))])

\* harvest-tags.py remove_orphaned_pins, one platform directory: its tag
\* directories that are not valid, then the platform directory if empty
PlatformItems(fsorder, valid_pins, ptree, platform_dir) ==
    LET stale == Walk(fsorder, {t \in Children(ptree, platform_dir) : t \notin valid_pins})
    IN [k \in 1..Len(stale) |-> Item("rmtree", "pins", stale[k], <<>>)]
       \o << Item("rmdir_if_empty", "pins", platform_dir, <<>>) >>

\* one image directory: its platform directories, then itself if empty
ImageItems(fsorder, valid_pins, ptree, image_dir) ==
    LET ps == Walk(fsorder, Children(ptree, image_dir))
    IN Flatten([k \in 1..Len(ps) |-> PlatformItems(fsorder, valid_pins, ptree, ps[k])])
       \o << Item("rmdir_if_empty", "pins", image_dir, <<>>) >>

\* harvest-tags.py main: remove_orphaned_pins, then a guarded creation for
\* every version file that names a tag
ht_items(fsorder, vtree, ptree) ==
    LET ids == Walk(fsorder, Children(ptree, <<>>))
        vs == Walk(fsorder, rglob(vtree))
        jobs == [k \in 1..Len(vs) |-> HtPinJob(vtree.files[vs[k]])]
    IN (IF <<>> \notin ptree.dirs THEN <<>>
        ELSE Flatten([k \in 1..Len(ids) |->
                         ImageItems(fsorder, get_valid_pins_from_versions(vtree), ptree, ids[k])]))
       \o Flatten([k \in 1..Len(jobs) |->
                     IF jobs[k].wanted
                     THEN << Item("create", "pins", jobs[k].path, jobs[k].content) >>
                     ELSE <<>>])

\* what a stage will do, from the catalog and the trees it finds
stage_items(stage, fsorder, cat, vtree, ptree) ==
    CASE stage = "generate-version-dockerfiles" ->
            IF cat.exists THEN gvd_items(fsorder, cat, vtree, ptree) ELSE <<>>
      [] stage = "harvest-tags" ->
            IF <<>> \in vtree.dirs THEN ht_items(fsorder, vtree, ptree) ELSE <<>>
      [] stage = "generate-versions" ->
            IF cat.exists THEN CreateItems("versions", VersionJobs(cat.images)) ELSE <<>>

\* the trees an uninterrupted run of the stage ends with
stage_goal(stage, fsorder, cat, vtree, ptree) ==
    CASE stage = "generate-version-dockerfiles" ->
            CHOOSE g \in {[versions |-> r.versions, pins |-> r.pins] :
                             r \in {generate_version_dockerfiles(fsorder, cat, vtree, ptree)}} : TRUE
      [] stage = "harvest-tags" ->
            [versions |-> vtree, pins |-> harvest_tags(fsorder, vtree, ptree).tree]
      [] stage = "generate-versions" ->
            [versions |-> generate_versions(cat, vtree).tree, pins |-> ptree]

\* parent.rmdir() succeeds: the directory is there, is not the root, is empty
CanPrune(tree, p) == p # <<>> /\ p \in tree.dirs /\ IsEmptyDir(tree, p)

Rmdir(tree, p) == [dirs |-> tree.dirs \ {p}, files |-> tree.files]

\* mkdir(parents=True, exist_ok=True) makes the missing directories from the
\* top down, one mkdir each
MissingDirs(tree, d) == {p \in Prefixes(d) : p \notin tree.dirs}

\* one step of the work on item it: the tree it leaves, whether the item
\* needs more steps (and then the phase and the directory it is at), and
\* whether the step wrote the item's file
step_item(it, phase, at, tree) ==
    CASE it.kind = "unlink" /\ phase = "begin" ->
            CHOOSE r \in {[tree |-> t, more |-> CanPrune(t, it.path), phase |-> "prune",
                           at |-> it.path, wrote |-> FALSE] :
                             t \in {Unlink(tree, it.path)}} : TRUE
      [] it.kind = "unlink" /\ phase # "begin" ->
            CHOOSE r \in {[tree |-> t, more |-> CanPrune(t, Parent(at)), phase |-> "prune",
                           at |-> Parent(at), wrote |-> FALSE] :
                             t \in {Rmdir(tree, at)}} : TRUE
      [] it.kind = "rmtree" ->
            [tree |-> RmTree(tree, it.path), more |-> FALSE, phase |-> "begin",
             at |-> <<>>, wrote |-> FALSE]
      [] it.kind = "rmdir_if_empty" ->
            [tree |-> IF it.path \in tree.dirs /\ IsEmptyDir(tree, it.path)
                      THEN Rmdir(tree, it.path) ELSE tree,
             more |-> FALSE, phase |-> "begin", at |-> <<>>, wrote |-> FALSE]
      [] it.kind = "create" ->
            IF phase = "begin" /\ FileExists(tree, it.path)
            THEN [tree |-> tree, more |-> FALSE, phase |-> "begin", at |-> <<>>,
                  wrote |-> FALSE]
            ELSE IF MissingDirs(tree, it.path) # {}
            THEN [tree |-> [dirs |-> tree.dirs \cup
                                       {CHOOSE p \in MissingDirs(tree, it.path) :
                                           \A q \in MissingDirs(tree, it.path) :
                                              Len(p) <= Len(q)},
                            files |-> tree.files],
                  more |-> TRUE, phase |-> "make", at |-> <<>>, wrote |-> FALSE]
            ELSE [tree |-> [dirs |-> tree.dirs,
                            files |-> Put(tree.files, it.path, it.content)],
                  more |-> FALSE, phase |-> "begin", at |-> <<>>, wrote |-> TRUE]

UnderWay == run.i <= Len(run.items)

\* the stage starts: it reads the catalog and lists the trees.  After a
\* crash the same stage is started again; what an uninterrupted run would
\* have ended with is remembered from the start of the run that crashed.
StartRun ==
    \E stage \in IF scripts = "legacy"
                 THEN {"generate-version-dockerfiles", "harvest-tags"}
                 ELSE {"generate-versions"} :
        /\ ~UnderWay
        /\ run.crashed => stage = run.stage
        /\ run' = [stage |-> stage,
                   items |-> stage_items(stage, walk, catalog, versions, pins),
                   i |-> 1, phase |-> "begin", at |-> <<>>, created |-> {},
                   crashed |-> FALSE, recovering |-> run.crashed,
                   crashes |-> run.crashes,
                   goal |-> IF run.crashed THEN run.goal
                            ELSE stage_goal(stage, walk, catalog, versions, pins)]
        /\ UNCHANGED <<scripts, walk, catalog, versions, pins, digestsFile, report, edits,
                       probe, encoded>>

\* the run's next filesystem operation
Step ==
    /\ UnderWay
    /\ \E it \in {run.items[run.i]} :
       \E r \in {step_item(it, run.phase, run.at,
                           IF it.tree = "versions" THEN versions ELSE pins)} :
          /\ versions' = IF it.tree = "versions" THEN r.tree ELSE versions
          /\ pins' = IF it.tree = "pins" THEN r.tree ELSE pins
          /\ run' = [run EXCEPT !.i = IF r.more THEN @ ELSE @ + 1,
                                !.phase = IF r.more THEN r.phase ELSE "begin",
                                !.at = IF r.more THEN r.at ELSE <<>>,
                                !.created = IF r.wrote THEN @ \cup {<<it.tree, it.path>>}
                                            ELSE @]
    /\ UNCHANGED <<scripts, walk, catalog, digestsFile, report, edits, probe, encoded>>

\* the process dies between two filesystem operations
Crash ==
    /\ UnderWay
    /\ run.crashes < MaxCrashes
    /\ run' = [run EXCEPT !.items = <<>>, !.i = 1, !.phase = "begin", !.at = <<>>,
                          !.crashed = TRUE, !.crashes = @ + 1]
    /\ UNCHANGED <<scripts, walk, catalog, versions, pins, digestsFile, report, edits,
                   probe, encoded>>

\* the catalogs of up to n items of distinct images
Catalogs(n) ==
    {c \in UNION {[1..k -> ImageSpecs] : k \in 0..n} :
        \A i, j \in DOMAIN c : i # j => c[i].image # c[j].image}

\* the seeded pins tree without the pin that the seeded version file names:
\* a pins tree that lacks a pin and holds pins nothing names
StalePins ==
    PruneUp(Unlink(SeedPins, << old, sanitize_platform(amd64), <<"1">> >>),
            << old, sanitize_platform(amd64), <<"1">> >>, <<>>)

StepsInit ==
    /\ scripts \in {"manage-images", "legacy"}
    /\ walk \in WalkOrders
    /\ \E c \in Catalogs(MaxStepSpecs) : catalog = [exists |-> TRUE, images |-> c]
    /\ \E start \in {<<NoTree, NoTree>>, <<SeedVersions, SeedPins>>,
                      <<SeedVersions, StalePins>>} :
           versions = start[1] /\ pins = start[2]
    /\ digestsFile = NoFile
    /\ report = NoReport
    /\ edits = 0
    /\ probe = NoProbe
    /\ encoded = NoEncoding
    /\ run = NoRun

SpecSteps == StepsInit /\ [][StartRun \/ Step \/ Crash]_vars

(***************************************************************************)
(* The pin path of one directive as each synchronizer computes it.         *)
(***************************************************************************)
\* what the pattern captures of a FROM line, groups 1 to 3: the platform
\* (NoText: a directive without --platform), the image, the tag (which may
\* hold a colon)
AgreeDirectives ==
    {[matched |-> TRUE, platform |-> p, image |-> i, tag |-> t, digest |-> NoDigest] :
        p \in CodecPlatforms \cup {NoText},
        i \in CodecImages \cup {reg_port_app},
        t \in CodecTags \cup { <<"rc", ":", "1">> }}

AgreeInit ==
    /\ \E m \in AgreeDirectives : probe = [a |-> m, b |-> m]
    /\ encoded = NoEncoding
    /\ run = NoRun
    /\ scripts = "manage-images"
    /\ walk = "forward"
    /\ catalog = [exists |-> TRUE, images |-> <<>>]
    /\ versions = NoTree
    /\ pins = NoTree
    /\ digestsFile = NoFile
    /\ report = NoReport
    /\ edits = 0

\* the pin of a version file's directive: manage-images.py generate_pins
\* (after parse_dockerfile's defaults) and harvest-tags.py main
EncodeVersionPin ==
    /\ encoded' = [op |-> "version-pin",
                   a |-> PinJobOf(WithDefaults(probe.a)).path,
                   b |-> HtPinJobOf(WithoutDigest(probe.a)).path]
    /\ UNCHANGED <<run, probe, scripts, walk, catalog, versions, pins, digestsFile, report,
                   edits>>

\* the pin of a catalog tag (the catalog always names the platform):
\* generate-version-dockerfiles.py and manage-images.py generate_pins, and
\* harvest-tags.py for the same three names
EncodeCatalogPin ==
    /\ probe.a.platform # NoText
    /\ encoded' = [op |-> "catalog-pin",
                   a |-> PinPath(probe.a.image, probe.a.platform, probe.a.tag),
                   b |-> HtPinJobOf(WithoutDigest(probe.a)).path]
    /\ UNCHANGED <<run, probe, scripts, walk, catalog, versions, pins, digestsFile, report,
                   edits>>

SpecAgree == AgreeInit /\ [][EncodeVersionPin \/ EncodeCatalogPin]_vars

(***************************************************************************)
(* The legacy workflow left to itself: generate-version-dockerfiles.py,    *)
(* then harvest-tags.py, again and again, with no edit in between.         *)
(***************************************************************************)
LoopInit ==
    /\ scripts = "legacy"
    /\ walk \in WalkOrders
    /\ \E c \in Catalogs(MaxSpecs) : catalog = [exists |-> TRUE, images |-> c]
    /\ \E start \in {<<NoTree, NoTree>>, <<SeedVersions, SeedPins>>} :
           versions = start[1] /\ pins = start[2]
    /\ digestsFile = NoFile
    /\ report = NoReport
    /\ edits = 0
    /\ probe = NoProbe
    /\ encoded = NoEncoding
    /\ run = NoRun

LoopGenerateVersionDockerfiles ==
    report.op # "generate-version-dockerfiles" /\ GenerateVersionDockerfiles

LoopHarvestTags ==
    report.op = "generate-version-dockerfiles" /\ HarvestTags

\* the workflow keeps being run
SpecLegacyLoop ==
    /\ LoopInit
    /\ [][LoopGenerateVersionDockerfiles \/ LoopHarvestTags]_vars
    /\ WF_vars(LoopGenerateVersionDockerfiles \/ LoopHarvestTags)

(***************************************************************************)
(* Properties.                                                             *)
(***************************************************************************)
\* the stages that synchronise the trees and the index
Stages ==
    {"generate-versions", "generate-pins", "harvest-digests",
     "generate-version-dockerfiles", "harvest-tags"}

\* C1 (idempotence): a stage that runs again, with no edit of the catalog or
\* of the trees since its last run, creates no file and removes none, and
\* leaves the versions tree, the pins tree and the digest index as they were.
C1_Idempotence ==
    [][(report'.repeat /\ report'.op \in Stages)
          => /\ versions' = versions
             /\ pins' = pins
             /\ digestsFile' = digestsFile
             /\ report'.createdVersions = {} /\ report'.createdPins = {}
             /\ report'.removedVersions = {} /\ report'.removedPins = {}]_vars

\* generate-pins has run twice in a row over a catalog and a pins tree that
\* are not empty
C1_Witness ==
    /\ report.op = "generate-pins" /\ report.repeat
    /\ catalog.images # <<>>
    /\ rglob(pins) # {}

\* the images of the universe for which the catalog holds no item of the same
\* directory name
Retired ==
    {item \in ImageSpecs :
        \A i \in DOMAIN catalog.images :
            sanitize_image_name(catalog.images[i].image) # sanitize_image_name(item.image)}

\* C2 (orphan removal): after generate-versions has run, the versions tree
\* holds no file that an item no longer in the catalog asked for, the
\* directories of such a file are gone too, and no directory below the root
\* is empty.
C2_OrphanRemoval ==
    (report.op = "generate-versions" /\ report.exit = 0)
       => /\ \A item \in Retired :
                \A k \in DOMAIN ItemVersionJobs(item) :
                    /\ ItemVersionJobs(item)[k].path \notin versions.dirs
                    /\ Parent(ItemVersionJobs(item)[k].path) \notin versions.dirs
          /\ \A d \in versions.dirs \ {<<>>} : ~IsEmptyDir(versions, d)

\* the commands that synchronise the versions tree with the catalog
VersionSynchronizers == {"generate-versions", "generate-version-dockerfiles"}

\* the path of the major version file of platform p of item i of the catalog
MajorPath(i, p) ==
    VersionPath(<<"major">>, catalog.images[i].image, catalog.images[i].platforms[p])

\* the items with initialMajor tags and their platforms
MajorEntries ==
    {e \in (DOMAIN catalog.images) \X (1..2) :
        /\ catalog.images[e[1]].initialMajor # <<>>
        /\ e[2] \in DOMAIN catalog.images[e[1]].platforms}

\* the first item of the catalog that asks for a major version file at path
FirstAt(path) ==
    CHOOSE i \in DOMAIN catalog.images :
        /\ \E e \in MajorEntries : e[1] = i /\ MajorPath(e[1], e[2]) = path
        /\ \A e \in MajorEntries : MajorPath(e[1], e[2]) = path => e[1] >= i

\* the directive of the file, a line that begins with FROM, ends with :tag
NamesTag(content, tag) ==
    \E k \in DOMAIN content :
        /\ Len(content[k]) > Len(tag) + 1
        /\ content[k][1] = "FROM"
        /\ SubSeq(content[k], Len(content[k]) - Len(tag), Len(content[k])) = <<":">> \o tag

ReferencedByCatalog == {job.path : job \in Range(PinJobs(catalog.images))}

ReferencedByVersions ==
    {job.path : job \in {j \in {VersionPinJob(versions.files[d]) : d \in rglob(versions)} :
                            j.wanted}}

ReferencedPins == ReferencedByCatalog \cup ReferencedByVersions

\* C4 (pins-tree invariant): after generate-pins has run, the pin files are
\* exactly those that the catalog or a current version file references; no
\* pin of an image that left the catalog and has no version file remains.
C4_PinsTreeInvariant ==
    (report.op = "generate-pins" /\ report.exit = 0) => rglob(pins) = ReferencedPins

\* the version paths that the catalog asks for
ExpectedVersionPaths == {job.path : job \in Range(VersionJobs(catalog.images))}

\* C5 (version preservation): a run of the version synchronizer leaves every
\* version file that exists at a path the catalog asks for in place, with the
\* content it had before the run.
C5_VersionPreservation ==
    [][report'.op \in VersionSynchronizers
          => \A d \in rglob(versions) \cap ExpectedVersionPaths :
                /\ FileExists(versions', d)
                /\ versions'.files[d] = versions.files[d]]_vars

\* the synchronizer has run over a version file, at a path the catalog asks
\* for, whose content is not what the synchronizer writes there: the run did
\* not create it
C5_Witness ==
    /\ report.op \in VersionSynchronizers /\ report.exit = 0
    /\ \E k \in DOMAIN VersionJobs(catalog.images) :
          /\ FileExists(versions, VersionJobs(catalog.images)[k].path)
          /\ VersionJobs(catalog.images)[k].path \notin report.createdVersions
          /\ \A j \in DOMAIN VersionJobs(catalog.images) :
                VersionJobs(catalog.images)[j].path = VersionJobs(catalog.images)[k].path
                   => versions.files[VersionJobs(catalog.images)[k].path]
                         # VersionJobs(catalog.images)[j].content

\* C6 (pin preservation): a run of generate-pins leaves every pin file that
\* exists in place with the content it had, digest included; a run of
\* harvest-tags.py changes the content of no pin file that it leaves in place.
C6_PinPreservation ==
    [][/\ report'.op = "generate-pins"
          => \A d \in DOMAIN pins.files :
                FileExists(pins', d) /\ pins'.files[d] = pins.files[d]
       /\ report'.op = "harvest-tags"
          => \A d \in (DOMAIN pins.files) \cap (DOMAIN pins'.files) :
                pins'.files[d] = pins.files[d]]_vars

\* generate-pins has run over a pin file that carries a digest, at a path that
\* the catalog or a version file references
C6_Witness ==
    /\ report.op = "generate-pins" /\ report.exit = 0
    /\ \E d \in ReferencedPins \cap rglob(pins) :
          /\ d \notin report.createdPins
          /\ parse_dockerfile(pins.files[d]).digest # NoDigest

\* the reference that the index holds at [image][tag][platform], if any
IndexAt(digests, parsed) ==
    Get(Get(Get(digests, parsed.image), parsed.tag), parsed.platform)

\* the directives of the pin files
PinDirectives ==
    {m \in {parse_dockerfile(pins.files[d]) : d \in rglob(pins)} : m.matched}

\* C7 (digest skip): after harvest-digests, no value of the index is the
\* reference of a pin directive that has no digest, and every pin directive
\* with a digest of 64 hexadecimal characters is in the index at
\* [image][tag][platform] as image:tag@sha256:digest.
C7_DigestSkip ==
    (report.op = "harvest-digests" /\ report.exit = 0)
       => \A m \in PinDirectives :
             IF m.digest = NoDigest
             THEN IndexAt(digestsFile.digests, m) # m.image \o <<":">> \o m.tag
             ELSE IndexAt(digestsFile.digests, m) = Reference(m.image, m.tag, m.digest)

\* C8 (harvest determinism): the index that harvest-digests writes is the one
\* computed from the pins tree alone, with no previous digests.json and with
\* the pin files visited in any order.
C8_HarvestDeterminism ==
    (report.op = "harvest-digests" /\ report.exit = 0)
       => \A w \in WalkOrders : digestsFile = harvest_digests(w, pins, NoFile).file

\* C9 (path codec injectivity): two names that differ in image, platform or
\* tag have different pins paths, and two names that differ in strategy,
\* image or platform have different versions paths.
C9_CodecInjective ==
    /\ encoded.op = "pins"
          => (<<probe.a.image, probe.a.platform, probe.a.tag>>
                 # <<probe.b.image, probe.b.platform, probe.b.tag>>
              => encoded.a # encoded.b)
    /\ encoded.op = "versions"
          => (<<probe.a.strategy, probe.a.image, probe.a.platform>>
                 # <<probe.b.strategy, probe.b.image, probe.b.platform>>
              => encoded.a # encoded.b)

\* the reference of platform p and the first initialMajor tag of item i
MajorReference(i, p) ==
    [image |-> catalog.images[i].image,
     platform |-> catalog.images[i].platforms[p],
     tag |-> catalog.images[i].initialMajor[1]]

\* the one-line file FROM --platform=p i:t
MajorContent(i, p) ==
    create_dockerfile_with_tag(MajorReference(i, p).image, MajorReference(i, p).platform,
                               MajorReference(i, p).tag)

MajorPinPath(i, p) ==
    PinPath(MajorReference(i, p).image, MajorReference(i, p).platform,
            MajorReference(i, p).tag)

\* C10 (end-to-end pipeline): from empty trees, for every item, platform p
\* and first initialMajor tag t of the catalog, generate-versions leaves the
\* version file with content FROM --platform=p i:t; generate-pins leaves the
\* pin file at the path of (i, p, t) with that content, to which the bot may
\* have appended a digest; and harvest-digests leaves index[i][t][p] =
\* i:t@sha256:d for the digest d that the bot appended to that pin file.
C10_Pipeline ==
    \A e \in MajorEntries :
        /\ report.op = "generate-versions"
              => /\ FileExists(versions, MajorPath(e[1], e[2]))
                 /\ versions.files[MajorPath(e[1], e[2])] = MajorContent(e[1], e[2])
        /\ report.op = "generate-pins"
              => /\ FileExists(pins, MajorPinPath(e[1], e[2]))
                 /\ \/ pins.files[MajorPinPath(e[1], e[2])] = MajorContent(e[1], e[2])
                    \/ \E d \in BotDigests :
                          pins.files[MajorPinPath(e[1], e[2])]
                             = WithDigest(MajorContent(e[1], e[2]), d)
        /\ report.op = "harvest-digests"
              => \A d \in BotDigests :
                    (/\ FileExists(pins, MajorPinPath(e[1], e[2]))
                     /\ pins.files[MajorPinPath(e[1], e[2])]
                           = WithDigest(MajorContent(e[1], e[2]), d))
                       => IndexAt(digestsFile.digests, MajorReference(e[1], e[2]))
                             = Reference(MajorReference(e[1], e[2]).image,
                                         MajorReference(e[1], e[2]).tag, d)

\* C11: after a run of generate-versions, generate-pins or harvest-digests
\* the exit code is non-zero only when the stage requires the catalog file
\* and the file is missing (generate-versions is the one that reads it
\* unconditionally); in every other situation, missing versions or pins tree
\* included, the exit code is zero.
C11_ExitCodes ==
    report.op \in {"generate-versions", "generate-pins", "harvest-digests"} =>
        (report.exit # 0 => report.op = "generate-versions" /\ ~catalog.exists)

\* C12: a version file whose FROM line carries no tag yields no pin entry:
\* a run of generate-pins creates no pin of tag latest for such a file.
C12_AbsentTagNoPin ==
    LET tagless == {d \in rglob(versions) : \E m \in {FirstMatch(versions.files[d])} :
                                               m.matched /\ m.tag = NoText}
        latest(content) ==
            CHOOSE r \in {PinPath(parsed.image, parsed.platform, DefaultTag) :
                             parsed \in {parse_dockerfile(content)}} : TRUE
    IN report.op = "generate-pins" =>
          \A d \in tagless : latest(versions.files[d]) \notin report.createdPins

\* C13: no run of generate-pins, generate-version-dockerfiles.py or
\* harvest-tags.py deletes a pin that the catalog's initial tags reference or
\* that a version file (one that spells out platform and tag) currently
\* names; a deleted pin is referenced by neither.
C13_NoReferencedPinDeleted ==
    LET named == {PinPath(m.image, m.platform, m.tag) :
                     m \in {x \in {FirstMatch(versions.files[d]) : d \in rglob(versions)} :
                               x.matched /\ x.tag # NoText /\ x.platform # NoText}}
    IN report.op \in {"generate-pins", "generate-version-dockerfiles", "harvest-tags"} =>
          \A d \in report.removedPins : d \notin ReferencedByCatalog /\ d \notin named

\* C14 (prune-upward rule): after a run that deleted orphan files, in the
\* versions tree and in the pins tree: the root is still there, even when
\* nothing else is left; no directory on the way from a deleted file to the
\* root is left behind empty (the walk went up as far as the directories
\* were empty); and every remaining file and directory still has all its
\* ancestors (the walk stopped at the first directory that holds something).
C14_PruneUpward ==
    LET pruned(tree, removed) ==
            /\ removed # {} => <<>> \in tree.dirs
            /\ \A d \in removed : \A p \in Prefixes(d) \ {<<>>} :
                  p \in tree.dirs => ~IsEmptyDir(tree, p)
            /\ \A e \in tree.dirs \cup DOMAIN tree.files : Prefixes(e) \subseteq tree.dirs
    IN report.op \in {"generate-version-dockerfiles", "harvest-tags"} /\ report.exit = 0 =>
          /\ pruned(versions, report.removedVersions)
          /\ pruned(pins, report.removedPins)

\* generate-version-dockerfiles.py deleted every file of both trees (the
\* catalog lists nothing) and both roots are all that is left.
C14_Witness ==
    /\ report.op = "generate-version-dockerfiles"
    /\ report.removedVersions # {} /\ report.removedPins # {}
    /\ versions = EmptyTree /\ pins = EmptyTree

\* C15 (orphan-before-create ordering): within one run, every step that
\* takes a file or a directory away from one of the two trees is taken
\* while the run has not yet created a file nor begun to make the
\* directories of one; so nothing a run creates is deleted or pruned later
\* in that run.
C15_OrphansBeforeCreate ==
    [][(\/ ~(DOMAIN versions.files \subseteq DOMAIN versions'.files)
        \/ ~(versions.dirs \subseteq versions'.dirs)
        \/ ~(DOMAIN pins.files \subseteq DOMAIN pins'.files)
        \/ ~(pins.dirs \subseteq pins'.dirs))
       => run.created = {} /\ run.phase # "make"]_vars

\* a complete run of generate-version-dockerfiles.py that had an orphan to
\* delete and then created files
C15_Witness ==
    /\ run.stage = "generate-version-dockerfiles"
    /\ ~UnderWay /\ ~run.crashed
    /\ Len(run.items) > 0 /\ run.items[1].kind = "unlink"
    /\ run.created # {}

\* The state of the pin of each file of a pins tree: 1 pinned without
\* digest, 2 pinned with digest (a path with no file is a declared pin, 0).
PinStates(tree) ==
    [d \in DOMAIN tree.files |->
        IF parse_dockerfile(tree.files[d]).digest = NoDigest THEN 1 ELSE 2]

\* C16 (pin state machine): under manage-images.py a pin only moves from
\* declared to pinned without digest to pinned with digest, one state at a
\* time; every pin file that generate-pins creates has no digest and
\* generate-pins changes the state of no existing pin file; harvest-digests
\* leaves the pins tree as it is and every entry of the index it writes is
\* the reference, digest included, of a pin file that carries a digest.
C16_PinStateMachine ==
    [][scripts = "manage-images" /\ (pins' # pins \/ report'.op = "harvest-digests") =>
         \E before \in {PinStates(pins)}, after \in {PinStates(pins')} :
            LET state(states, d) == IF d \in DOMAIN states THEN states[d] ELSE 0
            IN /\ \A d \in (DOMAIN before) \cup (DOMAIN after) :
                     /\ state(after, d) >= state(before, d)
                     /\ state(after, d) <= state(before, d) + 1
               /\ report'.op = "generate-pins" =>
                     \A d \in DOMAIN after :
                        IF d \in DOMAIN before THEN after[d] = before[d]
                        ELSE after[d] = 1
               /\ report'.op = "harvest-digests" =>
                     /\ pins' = pins
                     /\ \A s \in Slots(digestsFile'.digests) :
                           \E d \in rglob(pins) :
                           \E m \in {parse_dockerfile(pins.files[d])} :
                              /\ m.matched /\ m.digest # NoDigest
                              /\ Slot(m) = s
                              /\ digestsFile'.digests[s[1]][s[2]][s[3]]
                                    = Reference(m.image, m.tag, m.digest)]_vars

\* harvest-digests has run over pins that generate-pins created, of which
\* one has since been given a digest and is in the index, and another has
\* not and was skipped
C16_Witness ==
    /\ report.op = "harvest-digests"
    /\ report.included > 0 /\ report.skipped > 0
    /\ \E states \in {PinStates(pins)} :
          /\ \E d \in (DOMAIN states) \ rglob(SeedPins) : states[d] = 2
          /\ \E d \in (DOMAIN states) \ rglob(SeedPins) : states[d] = 1

\* C17 (crash recovery): when a stage was interrupted after some of its
\* filesystem operations and was then run again to its end, the two trees
\* are the ones (same files, same directories) that the interrupted run
\* would have ended with had it not been interrupted.
C17_CrashRecovery ==
    (run.recovering /\ ~UnderWay /\ ~run.crashed)
       => versions = run.goal.versions /\ pins = run.goal.pins

\* C18 (one stage per subcommand): a run of generate-versions leaves the
\* pins tree and the digest index as they were, a run of generate-pins
\* leaves the versions tree and the digest index as they were, and a run of
\* harvest-digests leaves both trees as they were.
C18_OneStagePerSubcommand ==
    [][/\ report'.op = "generate-versions" => pins' = pins /\ digestsFile' = digestsFile
       /\ report'.op = "generate-pins" => versions' = versions /\ digestsFile' = digestsFile
       /\ report'.op = "harvest-digests" => versions' = versions /\ pins' = pins]_vars

\* generate-versions has created version files while the pins tree held
\* files and digests.json was there
C18_Witness ==
    /\ report.op = "generate-versions"
    /\ report.createdVersions # {}
    /\ rglob(pins) # {}
    /\ digestsFile.exists

\* C19 (codec agreement): for every image, platform (present or absent) and
\* tag, the pin path that harvest-tags.py computes is the pin path that
\* manage-images.py generate_pins and generate-version-dockerfiles.py
\* compute.
C19_CodecAgreement ==
    encoded.op \in {"version-pin", "catalog-pin"} => encoded.a = encoded.b

\* C20 (common fixed point of the legacy scripts): with no edit in between,
\* running generate-version-dockerfiles.py and then harvest-tags.py again
\* and again eventually reaches a state in which both scripts report no
\* created and no removed entries: neither would create or remove anything
\* if run.
C20_CommonFixedPoint ==
    <>(/\ \E g \in {generate_version_dockerfiles(walk, catalog, versions, pins)} :
             /\ g.created_version_files = {} /\ g.created_pin_files = {}
             /\ g.removed_version_files = {} /\ g.removed_pin_files = {}
       /\ \E h \in {harvest_tags(walk, versions, pins)} :
             h.created = {} /\ h.removed = {})


\* C21 (harvest accounting): after a run of harvest-digests that exits 0,
\* no two distinct pin files that carry a digest parse to the same index
\* slot (image, tag, platform); the reported number of included references
\* is the number of pin files that carry a digest; and included plus
\* skipped is the number of pin files with a matching FROM line.
C21_HarvestAccounting ==
    report.op = "harvest-digests" /\ report.exit = 0 =>
       \E parsed \in {[d \in rglob(pins) |-> parse_dockerfile(pins.files[d])]} :
          LET matching == {d \in DOMAIN parsed : parsed[d].matched}
              digested == {d \in matching : parsed[d].digest # NoDigest}
          IN /\ \A d1, d2 \in digested :
                   Slot(parsed[d1]) = Slot(parsed[d2]) => d1 = d2
             /\ report.included = Cardinality(digested)
             /\ report.included + report.skipped = Cardinality(matching)


\* C22 (path/content consistency): in the trees that manage-images.py
\* builds from a catalog, with digests appended by the update bot, every
\* file has a FROM line that parse_dockerfile matches; every pin file lies
\* at the path encoded from the image, platform and tag parsed from its own
\* content, and has no digest when generate-pins has just created it;
\* every version file has no digest and lies under the directories encoded
\* from the image and platform parsed from its own content.
C22_PathContentConsistency ==
    /\ \A d \in rglob(pins) : \E m \in {parse_dockerfile(pins.files[d])} :
          /\ m.matched
          /\ PinPath(m.image, m.platform, m.tag) = d
          /\ (report.op = "generate-pins" /\ d \in report.createdPins)
                => m.digest = NoDigest
    /\ \A d \in rglob(versions) : \E m \in {parse_dockerfile(versions.files[d])} :
          /\ m.matched
          /\ m.digest = NoDigest
          /\ \E strategy \in { <<"major">>, <<"major-minor">>, <<"major-minor-patch">> } :
                VersionPath(strategy, m.image, m.platform) = d

=============================================================================
